---- MODULE Spec2Model ----
(***************************************************************************)
(* The remittance escrow contract (src/src/contract.rs, src/src/state.rs,  *)
(* src/src/msg.rs) as a state machine.  The state is the ESCROWS map; one  *)
(* action per ExecuteMsg variant; the queries are operators on the map.    *)
(***************************************************************************)
EXTENDS Integers, Sequences, FiniteSets, TLC

VARIABLES
    store,     \* ESCROWS: escrow id -> Escrow, the live records
    pre,       \* ESCROWS as it was when the last call was entered
    last,      \* the last call: its operation, arguments and Result<Response, ContractError>
    paid,      \* history: per id, the calls that returned transfers since its last Create
    scenario,  \* history: how far the last calls follow Create, Accept, Creator-complete
    gate,      \* the trust gate applied to a pair of profiles (GateSpec only)
    ledger     \* a GenericBalance under add_tokens and send_tokens (LedgerSpec only)

vars == <<store, pre, last, paid, scenario, gate, ledger>>

----------------------------------------------------------------------------
(* Bounds and input sets *)

\* longest list of coins attached to one call (info.funds)
MaxCoins == 2

\* the amount of one coin is 0 or Unit
Unit == 100

Ids == {"foobar", "assign"}

\* callers; "arb" is also the arbiter the requests name
Addrs == {"alice", "bob", "arb"}

\* a string that Api::addr_validate rejects
InvalidAddr == ""

\* cw20 token contracts
Tokens == {"tok"}

Denoms == {"tokens"}

\* Option<T>: None is <<>>, Some(v) is <<v>>
None == <<>>

Some(v) == <<v>>

\* most add_tokens calls on one GenericBalance
MaxAdds == 3

\* the denominations and tokens deposited into one GenericBalance
LedgerDenoms == {"atom", "eth"}

LedgerTokens == {"tok", "tok2"}

\* Env: block height and block time
Envs == {[height |-> 0, time |-> 0], [height |-> 2, time |-> 2]}

----------------------------------------------------------------------------
(* state.rs *)

Coins == {[denom |-> d, amount |-> a] : d \in Denoms, a \in {0, Unit}}

RECURSIVE SeqsUpTo(_, _)
SeqsUpTo(S, n) ==
    IF n = 0 THEN {<<>>}
    ELSE LET shorter == SeqsUpTo(S, n - 1)
         IN  shorter \cup {Append(q, x) : q \in {r \in shorter : Len(r) = n - 1}, x \in S}

\* cw20::Balance: Native(NativeBalance(Vec<Coin>)) or Cw20(Cw20CoinVerified)
NativeBalances == {[kind |-> "native", coins |-> c, token |-> None] : c \in SeqsUpTo(Coins, MaxCoins)}

Cw20Balances ==
    {[kind |-> "cw20", coins |-> <<>>, token |-> Some([address |-> t, amount |-> a])] :
        t \in Tokens, a \in {0, Unit}}

\* the TrustMetrics a request may require
ZeroMetrics ==
    [percent_completed |-> 0, percent_satisfied |-> 0, avg_volume |-> 0,
     avg_completion_speed |-> 0, total_volume |-> 0, total_completed |-> 0]

\* the value is_higher yields: its per-field `false;` and its final `true;` are
\* expression statements and the function declares no result, so the source does
\* not determine the boolean f_accept branches on: every outcome is possible.
is_higher(self, other) == BOOLEAN

\* Escrow::is_accept_expired reporting the window as open
is_accept_expired_never(escrow, env) == FALSE

\* Escrow::is_accept_expired
is_accept_expired(escrow, env) == TRUE

\* Escrow::is_expired
is_expired(escrow, env) ==
    \/ escrow.end_height # None /\ env.height > escrow.end_height[1]
    \/ escrow.end_time # None /\ env.time > escrow.end_time[1]

\* the index of the first element of list that has key k in field f, or 0
IndexOf(list, f, k) ==
    IF \E i \in 1..Len(list) : list[i][f] = k
    THEN CHOOSE i \in 1..Len(list) :
            list[i][f] = k /\ \A j \in 1..(i - 1) : list[j][f] # k
    ELSE 0

\* one turn of add_tokens' loop: the amount goes to the entry of that key, or the
\* entry is pushed
add_entry(list, f, token) ==
    LET idx == IndexOf(list, f, token[f])
    IN  IF idx # 0
        THEN [list EXCEPT ![idx].amount = @ + token.amount]
        ELSE Append(list, token)

RECURSIVE add_native(_, _)
add_native(native, coins) ==
    IF coins = <<>> THEN native
    ELSE add_native(add_entry(native, "denom", Head(coins)), Tail(coins))

\* GenericBalance::add_tokens with the entries pushed in front of the list
add_tokens_pushes_front(self, add) ==
    LET front(list, f, token) ==
            IF IndexOf(list, f, token[f]) # 0 THEN add_entry(list, f, token)
            ELSE <<token>> \o list
    IN  IF add.kind = "native"
        THEN [self EXCEPT !.native = add_native(@, add.coins)]
        ELSE [self EXCEPT !.cw20 = front(@, "address", add.token[1])]

\* GenericBalance::add_tokens
add_tokens(self, add) ==
    IF add.kind = "native"
    THEN [self EXCEPT !.native = add_native(@, add.coins)]
    ELSE [self EXCEPT !.cw20 = add_entry(@, "address", add.token[1])]

----------------------------------------------------------------------------
(* contract.rs *)

\* the stand-in trust lookup
get_trust_metrics(sender) ==
    [percent_completed |-> 95, percent_satisfied |-> 90, avg_volume |-> 100,
     avg_completion_speed |-> 600000, total_volume |-> 2000, total_completed |-> 20]

\* a profile the stand-in meets on all six fields, and the profiles it misses on one
MetMetrics == get_trust_metrics("alice")

RequiredMetrics == {ZeroMetrics, MetMetrics}

\* Result<Response, ContractError> together with the map the call leaves
Outcome(res, msgs, s) == [res |-> res, msgs |-> msgs, store |-> s]

Err(e, s) == Outcome(e, <<>>, s)

Remove(s, id) == [k \in DOMAIN s \ {id} |-> s[k]]

Save(s, id, escrow) == [k \in DOMAIN s \cup {id} |-> IF k = id THEN escrow ELSE s[k]]

\* Api::addr_validate succeeds on h
addr_valid(h) == h # InvalidAddr

\* Balance::is_empty: no coin with a non-zero amount, or a token amount of zero
balance_is_empty(balance) ==
    IF balance.kind = "native"
    THEN \A i \in 1..Len(balance.coins) : balance.coins[i].amount = 0
    ELSE balance.token[1].amount = 0

\* CreateMsg::addr_whitelist, when every entry validates
addr_whitelist(msg) == IF msg.cw20_whitelist = None THEN <<>> ELSE msg.cw20_whitelist[1]

whitelist_valid(msg) ==
    \A i \in 1..Len(addr_whitelist(msg)) : addr_valid(addr_whitelist(msg)[i])

\* a CreateMsg (the id is chosen apart)
CreateMsg(arbiter, whitelist, required) ==
    [arbiter |-> arbiter, end_height |-> None, end_time |-> None, exchange_rate |-> 1,
     cw20_whitelist |-> whitelist, required_trust_metrics |-> required]

BaseMsg == CreateMsg("arb", None, ZeroMetrics)

BaseBalance == [kind |-> "native", coins |-> <<[denom |-> "tokens", amount |-> Unit]>>, token |-> None]

\* the requests of the model, <<CreateMsg, Balance>>: every balance with the base
\* message, every other message with the base balance, and a token deposit whose
\* request lists the token already
CreateRequests ==
    {<<BaseMsg, b>> : b \in NativeBalances \cup Cw20Balances}
    \cup {<<m, BaseBalance>> :
            m \in {CreateMsg(InvalidAddr, None, ZeroMetrics),
                   CreateMsg("arb", Some(<<InvalidAddr>>), ZeroMetrics),
                   CreateMsg("arb", None, MetMetrics)}}
    \cup {<<CreateMsg("arb", Some(<<t>>), ZeroMetrics), b>> :
            t \in Tokens, b \in {c \in Cw20Balances : c.token[1].amount # 0}}

\* the Escrow of c_create with the coins of amount zero left out of the ledger
new_escrow_drops_zero_coins(msg, balance, sender) ==
    LET whitelist == addr_whitelist(msg)
        listed(t) == \E i \in 1..Len(whitelist) : whitelist[i] = t
        nonzero(c) == c.amount # 0
    IN  [arbiter |-> msg.arbiter,
         fulfiller |-> sender,
         creator |-> sender,
         end_height |-> msg.end_height,
         end_time |-> msg.end_time,
         balance |-> IF balance.kind = "native"
                     THEN [native |-> SelectSeq(balance.coins, nonzero), cw20 |-> <<>>]
                     ELSE [native |-> <<>>, cw20 |-> <<balance.token[1]>>],
         exchange_rate |-> msg.exchange_rate,
         cw20_whitelist |-> IF balance.kind = "cw20" /\ ~listed(balance.token[1].address)
                            THEN Append(whitelist, balance.token[1].address)
                            ELSE whitelist,
         required_trust_metrics |-> msg.required_trust_metrics,
         is_listed |-> TRUE,
         is_canceled |-> FALSE,
         is_accepted |-> FALSE,
         is_fulfilled |-> FALSE,
         is_in_arbitration |-> FALSE,
         is_completed |-> FALSE,
         time_created |-> Some(0),
         time_accepted |-> Some(0),
         time_fulfilled |-> Some(0),
         time_arbitration_started |-> Some(0)]

\* the Escrow of c_create with the whitelist as the request gives it
new_escrow_keeps_whitelist(msg, balance, sender) ==
    LET whitelist == addr_whitelist(msg)
        listed(t) == \E i \in 1..Len(whitelist) : whitelist[i] = t
    IN  [arbiter |-> msg.arbiter,
         fulfiller |-> sender,
         creator |-> sender,
         end_height |-> msg.end_height,
         end_time |-> msg.end_time,
         balance |-> IF balance.kind = "native"
                     THEN [native |-> balance.coins, cw20 |-> <<>>]
                     ELSE [native |-> <<>>, cw20 |-> <<balance.token[1]>>],
         exchange_rate |-> msg.exchange_rate,
         cw20_whitelist |-> whitelist,
         required_trust_metrics |-> msg.required_trust_metrics,
         is_listed |-> TRUE,
         is_canceled |-> FALSE,
         is_accepted |-> FALSE,
         is_fulfilled |-> FALSE,
         is_in_arbitration |-> FALSE,
         is_completed |-> FALSE,
         time_created |-> Some(0),
         time_accepted |-> Some(0),
         time_fulfilled |-> Some(0),
         time_arbitration_started |-> Some(0)]

\* the Escrow c_create builds
new_escrow(msg, balance, sender) ==
    LET whitelist == addr_whitelist(msg)
        listed(t) == \E i \in 1..Len(whitelist) : whitelist[i] = t
    IN  [arbiter |-> msg.arbiter,
         fulfiller |-> sender,
         creator |-> sender,
         end_height |-> msg.end_height,
         end_time |-> msg.end_time,
         balance |-> IF balance.kind = "native"
                     THEN [native |-> balance.coins, cw20 |-> <<>>]
                     ELSE [native |-> <<>>, cw20 |-> <<balance.token[1]>>],
         exchange_rate |-> msg.exchange_rate,
         cw20_whitelist |-> IF balance.kind = "cw20" /\ ~listed(balance.token[1].address)
                            THEN Append(whitelist, balance.token[1].address)
                            ELSE whitelist,
         required_trust_metrics |-> msg.required_trust_metrics,
         is_listed |-> TRUE,
         is_canceled |-> FALSE,
         is_accepted |-> FALSE,
         is_fulfilled |-> FALSE,
         is_in_arbitration |-> FALSE,
         is_completed |-> FALSE,
         time_created |-> Some(0),
         time_accepted |-> Some(0),
         time_fulfilled |-> Some(0),
         time_arbitration_started |-> Some(0)]

\* c_create saving over a record that is there
c_create_overwrites(s, id, msg, balance, sender) ==
    IF balance_is_empty(balance) THEN Err("EmptyBalance", s)
    ELSE IF ~whitelist_valid(msg) THEN Err("GenericErr", s)
    ELSE IF ~addr_valid(msg.arbiter) THEN Err("GenericErr", s)
    ELSE Outcome("Ok", <<>>, Save(s, id, new_escrow(msg, balance, sender)))

\* c_create looking the id up before it looks at the deposit
c_create_checks_id_first(s, id, msg, balance, sender) ==
    IF id \in DOMAIN s THEN Err("AlreadyInUse", s)
    ELSE IF balance_is_empty(balance) THEN Err("EmptyBalance", s)
    ELSE IF ~whitelist_valid(msg) THEN Err("GenericErr", s)
    ELSE IF ~addr_valid(msg.arbiter) THEN Err("GenericErr", s)
    ELSE Outcome("Ok", <<>>, Save(s, id, new_escrow(msg, balance, sender)))

\* c_create storing its record as fulfilled already
c_create_marks_fulfilled(s, id, msg, balance, sender) ==
    IF balance_is_empty(balance) THEN Err("EmptyBalance", s)
    ELSE IF ~whitelist_valid(msg) THEN Err("GenericErr", s)
    ELSE IF ~addr_valid(msg.arbiter) THEN Err("GenericErr", s)
    ELSE IF id \in DOMAIN s THEN Err("AlreadyInUse", s)
    ELSE Outcome("Ok", <<>>,
                 Save(s, id, [new_escrow(msg, balance, sender) EXCEPT !.is_fulfilled = TRUE]))

c_create(s, id, msg, balance, sender) ==
    IF balance_is_empty(balance) THEN Err("EmptyBalance", s)
    ELSE IF ~whitelist_valid(msg) THEN Err("GenericErr", s)
    ELSE IF ~addr_valid(msg.arbiter) THEN Err("GenericErr", s)
    ELSE IF id \in DOMAIN s THEN Err("AlreadyInUse", s)
    ELSE Outcome("Ok", <<>>, Save(s, id, new_escrow(msg, balance, sender)))

\* f_accept asking is_listed before it asks who calls
f_accept_listed_first(s, sender, id) ==
    IF id \notin DOMAIN s THEN {Err("NotFound", s)}
    ELSE LET escrow == s[id]
         IN  IF ~escrow.is_listed THEN {Err("NotListed", s)}
             ELSE IF sender = escrow.creator THEN {Err("Unauthorized", s)}
             ELSE {IF higher THEN Err("TrustMetricsInsufficient", s) ELSE Outcome("Ok", <<>>, s) :
                   higher \in is_higher(escrow.required_trust_metrics, get_trust_metrics(sender))}

\* f_accept saving the caller as the record's creator
f_accept_takes_over(s, sender, id) ==
    IF id \notin DOMAIN s THEN {Err("NotFound", s)}
    ELSE LET escrow == s[id]
         IN  IF sender = escrow.creator THEN {Err("Unauthorized", s)}
             ELSE IF ~escrow.is_listed THEN {Err("NotListed", s)}
             ELSE {IF higher
                   THEN Err("TrustMetricsInsufficient", s)
                   ELSE Outcome("Ok", <<>>, Save(s, id, [escrow EXCEPT !.creator = sender])) :
                   higher \in is_higher(escrow.required_trust_metrics, get_trust_metrics(sender))}

\* f_accept saving the caller as the record's fulfiller
f_accept_saves_fulfiller(s, sender, id) ==
    IF id \notin DOMAIN s THEN {Err("NotFound", s)}
    ELSE LET escrow == s[id]
         IN  IF sender = escrow.creator THEN {Err("Unauthorized", s)}
             ELSE IF ~escrow.is_listed THEN {Err("NotListed", s)}
             ELSE {IF higher
                   THEN Err("TrustMetricsInsufficient", s)
                   ELSE Outcome("Ok", <<>>, Save(s, id, [escrow EXCEPT !.fulfiller = sender])) :
                   higher \in is_higher(escrow.required_trust_metrics, get_trust_metrics(sender))}

\* f_accept saving the record as accepted
f_accept_marks_accepted(s, sender, id) ==
    IF id \notin DOMAIN s THEN {Err("NotFound", s)}
    ELSE LET escrow == s[id]
         IN  IF sender = escrow.creator THEN {Err("Unauthorized", s)}
             ELSE IF ~escrow.is_listed THEN {Err("NotListed", s)}
             ELSE {IF higher
                   THEN Err("TrustMetricsInsufficient", s)
                   ELSE Outcome("Ok", <<>>, Save(s, id, [escrow EXCEPT !.is_accepted = TRUE])) :
                   higher \in is_higher(escrow.required_trust_metrics, get_trust_metrics(sender))}

\* the set of results f_accept can give: one per value is_higher can yield
f_accept(s, sender, id) ==
    IF id \notin DOMAIN s THEN {Err("NotFound", s)}
    ELSE LET escrow == s[id]
         IN  IF sender = escrow.creator THEN {Err("Unauthorized", s)}
             ELSE IF ~escrow.is_listed THEN {Err("NotListed", s)}
             ELSE {IF higher
                   THEN Err("TrustMetricsInsufficient", s)
                   ELSE \* escrow.fulfiller = info.sender changes the loaded copy only
                        Outcome("Ok", <<>>, s) :
                   higher \in is_higher(escrow.required_trust_metrics, get_trust_metrics(sender))}

\* c_cancel with ESCROWS.remove ahead of its is_accepted check
c_cancel_removes_first(s, env, sender, id) ==
    IF id \notin DOMAIN s THEN Err("NotFound", s)
    ELSE LET escrow == s[id]
         IN  IF ~is_accept_expired(escrow, env) /\ sender # escrow.creator
             THEN Err("Unauthorized", s)
             ELSE IF ~escrow.is_accepted THEN Err("CantUnaccept", Remove(s, id))
             ELSE Outcome("Ok", <<>>, Remove(s, id))

\* c_cancel open to the creator alone
c_cancel_creator_only(s, env, sender, id) ==
    IF id \notin DOMAIN s THEN Err("NotFound", s)
    ELSE LET escrow == s[id]
         IN  IF sender # escrow.creator THEN Err("Unauthorized", s)
             ELSE IF ~escrow.is_accepted THEN Err("CantUnaccept", s)
             ELSE Outcome("Ok", <<>>, Remove(s, id))

\* c_cancel refusing a record whose end_height or end_time has passed
c_cancel_checks_expiry(s, env, sender, id) ==
    IF id \notin DOMAIN s THEN Err("NotFound", s)
    ELSE LET escrow == s[id]
         IN  IF is_expired(escrow, env) THEN Err("Expired", s)
             ELSE IF ~is_accept_expired(escrow, env) /\ sender # escrow.creator
             THEN Err("Unauthorized", s)
             ELSE IF ~escrow.is_accepted THEN Err("CantUnaccept", s)
             ELSE Outcome("Ok", <<>>, Remove(s, id))

\* escrow.is_listed and escrow.is_canceled are set on the loaded copy, which is dropped
c_cancel(s, env, sender, id) ==
    IF id \notin DOMAIN s THEN Err("NotFound", s)
    ELSE LET escrow == s[id]
         IN  IF ~is_accept_expired(escrow, env) /\ sender # escrow.creator
             THEN Err("Unauthorized", s)
             ELSE IF ~escrow.is_accepted THEN Err("CantUnaccept", s)
             ELSE Outcome("Ok", <<>>, Remove(s, id))

f_unaccept(s, sender, id) ==
    IF id \notin DOMAIN s THEN Err("NotFound", s)
    ELSE LET escrow == s[id]
         IN  IF sender # escrow.fulfiller THEN Err("Unauthorized", s)
             ELSE IF ~escrow.is_accepted THEN Err("CantUnaccept", s)
             ELSE \* escrow.fulfiller = info.sender changes the loaded copy only
                  Outcome("Ok", <<>>, s)

c_change(s, sender, msg) == Err("Unauthorized", s)

\* el_arbitrate loading the record first
el_arbitrate_loads_first(s, sender, id) ==
    IF id \notin DOMAIN s THEN Err("NotFound", s) ELSE Err("Unauthorized", s)

el_arbitrate(s, sender, id) == Err("Unauthorized", s)

f_complete(s, sender, id) ==
    IF id \notin DOMAIN s THEN Err("NotFound", s)
    ELSE LET escrow == s[id]
         IN  IF sender # escrow.fulfiller THEN Err("Unauthorized", s)
             ELSE IF ~escrow.is_accepted THEN Err("CantFulfill", s)
             ELSE Outcome("Ok", <<>>, s)

c_request_arbitration(s, sender, id) ==
    IF id \notin DOMAIN s THEN Err("NotFound", s)
    ELSE LET escrow == s[id]
         IN  IF sender # escrow.creator THEN Err("Unauthorized", s)
             ELSE IF ~escrow.is_fulfilled THEN Err("NotFulfilled", s)
             ELSE Outcome("Ok", <<>>, s)

\* send_tokens with the token transfers ahead of the native one
send_tokens_tokens_first(to, balance) ==
    [i \in 1..Len(balance.cw20) |->
            [kind |-> "wasm", to |-> to, contract_addr |-> balance.cw20[i].address,
             coins |-> <<>>, amount |-> balance.cw20[i].amount]]
    \o (IF balance.native = <<>> THEN <<>>
        ELSE <<[kind |-> "bank", to |-> to, contract_addr |-> "", coins |-> balance.native,
                amount |-> 0]>>)

\* one BankMsg::Send with the whole native list, then one Cw20 transfer per token
send_tokens(to, balance) ==
    (IF balance.native = <<>> THEN <<>>
     ELSE <<[kind |-> "bank", to |-> to, contract_addr |-> "", coins |-> balance.native,
             amount |-> 0]>>)
    \o [i \in 1..Len(balance.cw20) |->
            [kind |-> "wasm", to |-> to, contract_addr |-> balance.cw20[i].address,
             coins |-> <<>>, amount |-> balance.cw20[i].amount]]

\* c_complete paying the creator back
c_complete_pays_creator(s, sender, id) ==
    IF id \notin DOMAIN s THEN Err("NotFound", s)
    ELSE LET escrow == s[id]
         IN  IF sender # escrow.creator THEN Err("Unauthorized", s)
             ELSE IF ~escrow.is_fulfilled \/ escrow.is_completed THEN Err("Expired", s)
             ELSE Outcome("Ok", send_tokens(escrow.creator, escrow.balance), Remove(s, id))

\* c_complete without ESCROWS.remove
c_complete_keeps_record(s, sender, id) ==
    IF id \notin DOMAIN s THEN Err("NotFound", s)
    ELSE LET escrow == s[id]
         IN  IF sender # escrow.creator THEN Err("Unauthorized", s)
             ELSE IF ~escrow.is_fulfilled \/ escrow.is_completed THEN Err("Expired", s)
             ELSE Outcome("Ok", send_tokens(escrow.fulfiller, escrow.balance), s)

\* c_complete comparing the caller before it finds no record
c_complete_missing_unauthorized(s, sender, id) ==
    IF id \notin DOMAIN s THEN Err("Unauthorized", s)
    ELSE LET escrow == s[id]
         IN  IF sender # escrow.creator THEN Err("Unauthorized", s)
             ELSE IF ~escrow.is_fulfilled \/ escrow.is_completed THEN Err("Expired", s)
             ELSE Outcome("Ok", send_tokens(escrow.fulfiller, escrow.balance), Remove(s, id))

\* c_complete asking is_fulfilled alone
c_complete_ignores_completed(s, sender, id) ==
    IF id \notin DOMAIN s THEN Err("NotFound", s)
    ELSE LET escrow == s[id]
         IN  IF sender # escrow.creator THEN Err("Unauthorized", s)
             ELSE IF ~escrow.is_fulfilled THEN Err("Expired", s)
             ELSE Outcome("Ok", send_tokens(escrow.fulfiller, escrow.balance), Remove(s, id))

\* c_complete open to the fulfiller too
c_complete_lets_fulfiller(s, sender, id) ==
    IF id \notin DOMAIN s THEN Err("NotFound", s)
    ELSE LET escrow == s[id]
         IN  IF sender # escrow.creator /\ sender # escrow.fulfiller THEN Err("Unauthorized", s)
             ELSE IF ~escrow.is_fulfilled \/ escrow.is_completed THEN Err("Expired", s)
             ELSE Outcome("Ok", send_tokens(escrow.fulfiller, escrow.balance), Remove(s, id))

c_complete(s, sender, id) ==
    IF id \notin DOMAIN s THEN Err("NotFound", s)
    ELSE LET escrow == s[id]
         IN  IF sender # escrow.creator THEN Err("Unauthorized", s)
             ELSE IF ~escrow.is_fulfilled \/ escrow.is_completed THEN Err("Expired", s)
             ELSE Outcome("Ok", send_tokens(escrow.fulfiller, escrow.balance), Remove(s, id))

\* c_feedback asking is_completed before it asks who calls
c_feedback_checks_completion_first(s, sender, id) ==
    IF id \notin DOMAIN s THEN Err("NotFound", s)
    ELSE LET escrow == s[id]
         IN  IF ~escrow.is_completed THEN Err("NotComplete", s)
             ELSE IF sender # escrow.creator THEN Err("Unauthorized", s)
             ELSE Outcome("Ok", <<>>, s)

c_feedback(s, sender, id) ==
    IF id \notin DOMAIN s THEN Err("NotFound", s)
    ELSE LET escrow == s[id]
         IN  IF sender # escrow.creator THEN Err("Unauthorized", s)
             ELSE IF ~escrow.is_completed THEN Err("NotComplete", s)
             ELSE Outcome("Ok", <<>>, s)

f_feedback(s, sender, id) ==
    IF id \notin DOMAIN s THEN Err("NotFound", s)
    ELSE LET escrow == s[id]
         IN  IF sender # escrow.fulfiller THEN Err("Unauthorized", s)
             ELSE IF ~escrow.is_completed THEN Err("NotComplete", s)
             ELSE Outcome("Ok", <<>>, s)

\* execute: the results the call op can give on map s in block env
execute(s, env, op, id, sender, arg) ==
    CASE op = "el_arbitrate" -> {el_arbitrate(s, sender, id)}
      [] op = "c_create" -> {c_create(s, id, arg[1], arg[2], sender)}
      [] op = "f_accept" -> f_accept(s, sender, id)
      [] op = "c_cancel" -> {c_cancel(s, env, sender, id)}
      [] op = "f_unaccept" -> {f_unaccept(s, sender, id)}
      [] op = "c_change" -> {c_change(s, sender, BaseMsg)}
      [] op = "f_complete" -> {f_complete(s, sender, id)}
      [] op = "c_request_arbitration" -> {c_request_arbitration(s, sender, id)}
      [] op = "c_complete" -> {c_complete(s, sender, id)}
      [] op = "c_feedback" -> {c_feedback(s, sender, id)}
      [] op = "f_feedback" -> {f_feedback(s, sender, id)}

----------------------------------------------------------------------------
(* queries *)

\* the key of an id as the bytes the map orders by
KeyBytes(id) ==
    CASE id = "foobar" -> <<102, 111, 111, 98, 97, 114>>
      [] id = "assign" -> <<97, 115, 115, 105, 103, 110>>

\* a before b in lexicographic byte order
BytesLess(a, b) ==
    \E i \in 1..Len(b) :
        /\ \A j \in 1..(i - 1) : j <= Len(a) /\ a[j] = b[j]
        /\ (i > Len(a) \/ a[i] < b[i])
        /\ i - 1 <= Len(a)

\* all_escrow_ids with the keys in descending order
all_escrow_ids_descending(s) ==
    LET rank(id) == Cardinality({k \in DOMAIN s : BytesLess(KeyBytes(id), KeyBytes(k))})
    IN  [i \in 1..Cardinality(DOMAIN s) |-> CHOOSE id \in DOMAIN s : rank(id) = i - 1]

\* all_escrow_ids: the keys in ascending order
all_escrow_ids(s) ==
    LET rank(id) == Cardinality({k \in DOMAIN s : BytesLess(KeyBytes(k), KeyBytes(id))})
    IN  [i \in 1..Cardinality(DOMAIN s) |-> CHOOSE id \in DOMAIN s : rank(id) = i - 1]

query_list(s) == [escrows |-> all_escrow_ids(s)]

query_details(s, id) ==
    IF id \notin DOMAIN s THEN [res |-> "NotFound"]
    ELSE LET escrow == s[id]
         IN  [res |-> "Ok", id |-> id, arbiter |-> escrow.arbiter,
              fulfiller |-> escrow.fulfiller, creator |-> escrow.creator,
              end_height |-> escrow.end_height, end_time |-> escrow.end_time,
              native_balance |-> escrow.balance.native,
              cw20_balance |-> escrow.balance.cw20,
              cw20_whitelist |-> escrow.cw20_whitelist]

----------------------------------------------------------------------------
(* execute: one action per ExecuteMsg variant *)

\* the scenario "Create of foobar with one coin of Unit and zero thresholds on an
\* empty map, then a successful Accept by another caller, then Creator-complete by
\* the creator": the number of its calls that the last calls have made, in a row
scenario_after(op, id, sender, arg, out) ==
    IF /\ op = "c_create" /\ id = "foobar" /\ store = << >> /\ out.res = "Ok"
       /\ arg = <<BaseMsg, BaseBalance>>
    THEN 1
    ELSE IF /\ scenario = 1 /\ op = "f_accept" /\ id = "foobar" /\ out.res = "Ok"
            /\ sender # store["foobar"].creator
    THEN 2
    ELSE IF /\ scenario = 2 /\ op = "c_complete" /\ id = "foobar"
            /\ sender = store["foobar"].creator
    THEN 3
    ELSE 0

\* counts to 2: a second payment is already one too many
paid_after(op, id, out) ==
    [k \in Ids |->
        IF k # id THEN paid[k]
        ELSE IF op = "c_create" /\ out.res = "Ok" THEN 0
        ELSE IF out.msgs # <<>> /\ paid[k] < 2 THEN paid[k] + 1
        ELSE paid[k]]

\* the call op(arg) by sender ended with outcome out
Call(op, id, sender, arg, out) ==
    /\ pre' = store
    /\ store' = out.store
    /\ last' = [op |-> op, id |-> id, sender |-> sender, arg |-> arg,
                res |-> out.res, msgs |-> out.msgs]
    /\ paid' = paid_after(op, id, out)
    /\ scenario' = scenario_after(op, id, sender, arg, out)
    /\ UNCHANGED <<gate, ledger>>

NoCall ==
    [op |-> "instantiate", id |-> "", sender |-> "", arg |-> <<>>, res |-> "Ok", msgs |-> <<>>]

\* GenericBalance::default(), nothing added, nothing rendered
NoLedger ==
    [balance |-> [native |-> <<>>, cw20 |-> <<>>], adds |-> 0,
     total |-> [k \in LedgerDenoms \cup LedgerTokens |-> 0],
     first_native |-> <<>>, first_cw20 |-> <<>>,
     rendered |-> FALSE, to |-> "", msgs |-> <<>>]

NoGate == [applied |-> FALSE]

\* instantiate: an empty map, Response::default()
Init ==
    /\ store = << >>
    /\ pre = << >>
    /\ last = NoCall
    /\ paid = [k \in Ids |-> 0]
    /\ scenario = 0
    /\ gate = NoGate
    /\ ledger = NoLedger

\* the c_create calls of the model, <<id, request>>: every request on one id, the
\* base request on every id
CreateCalls ==
    {<<"foobar", r>> : r \in CreateRequests} \cup {<<id, <<BaseMsg, BaseBalance>>>> : id \in Ids}

CCreateOf(calls) ==
    \E c \in calls, sender \in Addrs :
        Call("c_create", c[1], sender, c[2], c_create(store, c[1], c[2][1], c[2][2], sender))

CCreate == CCreateOf(CreateCalls)

FAccept ==
    \E id \in Ids, sender \in Addrs :
        \E out \in f_accept(store, sender, id) : Call("f_accept", id, sender, <<>>, out)

CCancel ==
    \E id \in Ids, sender \in Addrs, env \in Envs :
        Call("c_cancel", id, sender, <<env>>, c_cancel(store, env, sender, id))

FUnaccept ==
    \E id \in Ids, sender \in Addrs :
        Call("f_unaccept", id, sender, <<>>, f_unaccept(store, sender, id))

CChange ==
    \E id \in Ids, msg \in {BaseMsg}, sender \in Addrs :
        Call("c_change", id, sender, <<>>, c_change(store, sender, msg))

FComplete ==
    \E id \in Ids, sender \in Addrs :
        Call("f_complete", id, sender, <<>>, f_complete(store, sender, id))

CReqArbitration ==
    \E id \in Ids, sender \in Addrs :
        Call("c_request_arbitration", id, sender, <<>>,
             c_request_arbitration(store, sender, id))

CComplete ==
    \E id \in Ids, sender \in Addrs :
        Call("c_complete", id, sender, <<>>, c_complete(store, sender, id))

CFeedback ==
    \E id \in Ids, sender \in Addrs :
        Call("c_feedback", id, sender, <<>>, c_feedback(store, sender, id))

FFeedback ==
    \E id \in Ids, sender \in Addrs :
        Call("f_feedback", id, sender, <<>>, f_feedback(store, sender, id))

ElArbitrate ==
    \E id \in Ids, sender \in Addrs :
        Call("el_arbitrate", id, sender, <<>>, el_arbitrate(store, sender, id))

\* execute's match, without c_create
Handlers ==
    \/ ElArbitrate
    \/ FAccept
    \/ CCancel
    \/ FUnaccept
    \/ CChange
    \/ FComplete
    \/ CReqArbitration
    \/ CComplete
    \/ CFeedback
    \/ FFeedback

Next == CCreate \/ Handlers

Spec == Init /\ [][Next]_vars

----------------------------------------------------------------------------
(* The handlers on any record the Escrow type admits.  The calls above never   *)
(* store a record with is_accepted, is_fulfilled or is_completed set, so what  *)
(* a handler does with one is seen only from a map that holds it already, as   *)
(* the storage tests put records with ESCROWS.save.                            *)

StoredBalances ==
    {[native |-> <<[denom |-> "tokens", amount |-> Unit]>>, cw20 |-> <<>>],
     [native |-> <<>>, cw20 |-> <<[address |-> "tok", amount |-> Unit]>>],
     [native |-> <<[denom |-> "tokens", amount |-> Unit], [denom |-> "stake", amount |-> 0]>>,
      cw20 |-> <<[address |-> "tok", amount |-> Unit]>>]}

\* Option<u64> expiry markers: none, or one that the later block of Envs has passed
Expiries == {None, Some(1)}

StoredEscrows ==
    {[new_escrow(BaseMsg, BaseBalance, "alice") EXCEPT
        !.fulfiller = f, !.balance = b, !.is_listed = fl[1], !.is_accepted = fl[2],
        !.is_fulfilled = fl[3], !.is_completed = fl[4],
        !.end_height = ex, !.end_time = ex] :
        f \in Addrs, b \in StoredBalances,
        fl \in BOOLEAN \X BOOLEAN \X BOOLEAN \X BOOLEAN, ex \in Expiries}

InitStored ==
    /\ store \in {<< >>} \cup {Save(<< >>, "foobar", e) : e \in StoredEscrows}
    /\ pre = store
    /\ last = NoCall
    /\ paid = [k \in Ids |-> 0]
    /\ scenario = 0
    /\ gate = NoGate
    /\ ledger = NoLedger

\* a removed record's id is created anew
CCreateBase ==
    CCreateOf({<<"foobar", <<BaseMsg, b>>>> : b \in {BaseBalance, [BaseBalance EXCEPT !.coins = <<>>]}})

NextStored == CCreateBase \/ Handlers

SpecStored == InitStored /\ [][NextStored]_vars

----------------------------------------------------------------------------
(* The trust gate alone: is_higher applied to a required profile, a candidate *)
(* and the candidate bettered in one field.                                   *)

GateLevels == {0, 1}

GateProfiles ==
    [percent_completed : GateLevels, percent_satisfied : GateLevels, avg_volume : GateLevels,
     avg_completion_speed : GateLevels, total_volume : GateLevels, total_completed : GateLevels]

\* c with one field raised by one, or its latency lowered by one
Bettered(c) ==
    {[c EXCEPT !.percent_completed = @ + 1], [c EXCEPT !.percent_satisfied = @ + 1],
     [c EXCEPT !.avg_volume = @ + 1], [c EXCEPT !.total_volume = @ + 1],
     [c EXCEPT !.total_completed = @ + 1]}
    \cup (IF c.avg_completion_speed > 0 THEN {[c EXCEPT !.avg_completion_speed = @ - 1]} ELSE {})

InitGate ==
    /\ store = << >>
    /\ pre = << >>
    /\ last = NoCall
    /\ paid = [k \in Ids |-> 0]
    /\ scenario = 0
    /\ ledger = NoLedger
    /\ \E r \in GateProfiles, c \in GateProfiles :
         \E b \in Bettered(c) :
            gate = [applied |-> FALSE, required |-> r, candidate |-> c, bettered |-> b,
                    admitted |-> FALSE, bettered_admitted |-> FALSE]

\* f_accept admits when is_higher yields false
ApplyGate ==
    /\ ~gate.applied
    /\ \E higher \in is_higher(gate.required, gate.candidate),
          higher_bettered \in is_higher(gate.required, gate.bettered) :
            gate' = [gate EXCEPT !.applied = TRUE, !.admitted = ~higher,
                                 !.bettered_admitted = ~higher_bettered]
    /\ UNCHANGED <<store, pre, last, paid, scenario, ledger>>

NextGate == ApplyGate

GateSpec == InitGate /\ [][NextGate]_vars

----------------------------------------------------------------------------
(* The balance ledger alone: add_tokens applied to a GenericBalance that starts *)
(* empty, and send_tokens applied to what the adds have made of it.            *)

LedgerCoins == {[denom |-> d, amount |-> a] : d \in LedgerDenoms, a \in {0, Unit}}

\* the deposits: lists of coins, a denomination more than once included, or a token
LedgerDeposits ==
    {[kind |-> "native", coins |-> c, token |-> None] : c \in SeqsUpTo(LedgerCoins, MaxCoins)}
    \cup {[kind |-> "cw20", coins |-> <<>>, token |-> Some([address |-> t, amount |-> a])] :
            t \in LedgerTokens, a \in {0, Unit}}

\* the keys of a list in the order they come first
RECURSIVE FirstSeen(_, _)
FirstSeen(seen, keys) ==
    IF keys = <<>> THEN seen
    ELSE FirstSeen(IF \E i \in 1..Len(seen) : seen[i] = Head(keys)
                   THEN seen ELSE Append(seen, Head(keys)),
                   Tail(keys))

\* the amount a deposit holds under key k
Deposited(add, k) ==
    IF add.kind = "native"
    THEN LET amounts == [i \in 1..Len(add.coins) |->
                            IF add.coins[i].denom = k THEN add.coins[i].amount ELSE 0]
             sum[i \in 0..Len(amounts)] == IF i = 0 THEN 0 ELSE sum[i - 1] + amounts[i]
         IN  sum[Len(amounts)]
    ELSE IF add.token[1].address = k THEN add.token[1].amount ELSE 0

InitLedger ==
    /\ store = << >>
    /\ pre = << >>
    /\ last = NoCall
    /\ paid = [k \in Ids |-> 0]
    /\ scenario = 0
    /\ gate = NoGate
    /\ ledger = NoLedger

AddTokens ==
    /\ ~ledger.rendered
    /\ ledger.adds < MaxAdds
    /\ \E add \in LedgerDeposits :
         ledger' = [ledger EXCEPT
            !.balance = add_tokens(@, add),
            !.adds = @ + 1,
            !.total = [k \in DOMAIN @ |-> @[k] + Deposited(add, k)],
            !.first_native =
                IF add.kind = "native"
                THEN FirstSeen(@, [i \in 1..Len(add.coins) |-> add.coins[i].denom])
                ELSE @,
            !.first_cw20 =
                IF add.kind = "cw20" THEN FirstSeen(@, <<add.token[1].address>>) ELSE @]
    /\ UNCHANGED <<store, pre, last, paid, scenario, gate>>

\* send_tokens borrows the balance: it is read, the instructions are returned
SendTokens ==
    /\ ~ledger.rendered
    /\ \E to \in Addrs :
         ledger' = [ledger EXCEPT !.rendered = TRUE, !.to = to,
                                  !.msgs = send_tokens(to, ledger.balance)]
    /\ UNCHANGED <<store, pre, last, paid, scenario, gate>>

NextLedger == AddTokens \/ SendTokens

LedgerSpec == InitLedger /\ [][NextLedger]_vars

----------------------------------------------------------------------------
(* Properties *)

RECURSIVE SeqSum(_)
SeqSum(q) == IF Len(q) = 0 THEN 0 ELSE q[1] + SeqSum(Tail(q))

\* the amount a list of coins holds in denomination d
DenomTotal(coins, d) ==
    SeqSum([i \in 1..Len(coins) |-> IF coins[i].denom = d THEN coins[i].amount ELSE 0])

\* the amount a list of token entries holds of token t
TokenTotal(tokens, t) ==
    SeqSum([i \in 1..Len(tokens) |-> IF tokens[i].address = t THEN tokens[i].amount ELSE 0])

\* what a list of transfer instructions sends in denomination d, and of token t
DenomSent(msgs, d) ==
    SeqSum([i \in 1..Len(msgs) |->
                IF msgs[i].kind = "bank" THEN DenomTotal(msgs[i].coins, d) ELSE 0])

TokenSent(msgs, t) ==
    SeqSum([i \in 1..Len(msgs) |->
                IF msgs[i].kind = "wasm" /\ msgs[i].contract_addr = t THEN msgs[i].amount ELSE 0])

AllDenoms == Denoms \cup {"stake"}

\* the last call was op on a record that was in the map
CalledOnRecord(op) == last.op = op /\ last.id \in DOMAIN pre

\* C1: Creator-complete by the creator on a stored record that is fulfilled and not
\* completed succeeds, removes the record (a later load of the id is NotFound) and
\* returns transfers that all go to the record's fulfiller and carry, per
\* denomination and per token, exactly the ledger the record had.
C1_CreatorCompletePaysLedger ==
    (/\ CalledOnRecord("c_complete")
     /\ last.sender = pre[last.id].creator
     /\ pre[last.id].is_fulfilled
     /\ ~pre[last.id].is_completed)
    => /\ last.res = "Ok"
       /\ last.id \notin DOMAIN store
       /\ query_details(store, last.id).res = "NotFound"
       /\ \A i \in 1..Len(last.msgs) : last.msgs[i].to = pre[last.id].fulfiller
       /\ \A d \in AllDenoms :
            DenomSent(last.msgs, d) = DenomTotal(pre[last.id].balance.native, d)
       /\ \A t \in Tokens :
            TokenSent(last.msgs, t) = TokenTotal(pre[last.id].balance.cw20, t)

\* C1 happens: a Creator-complete paid a ledger of coins and tokens to a fulfiller
\* who is neither the creator nor the arbiter
C1_Witness ==
    /\ CalledOnRecord("c_complete")
    /\ last.res = "Ok"
    /\ pre[last.id].is_fulfilled
    /\ pre[last.id].fulfiller = "bob"
    /\ Len(last.msgs) = 2

\* C2: a call that returns transfers has removed the record it paid from in that
\* same call, and since its last Create no id has been paid from more than once.
C2_DisbursedAtMostOnce ==
    /\ last.msgs # <<>> => last.id \in DOMAIN pre /\ last.id \notin DOMAIN store
    /\ \A k \in Ids : paid[k] <= 1 /\ (paid[k] = 1 => k \notin DOMAIN store)

\* C2 happens: a record was paid out and a later Creator-complete of that id by the
\* same creator found nothing to pay
C2_Witness ==
    /\ last.op = "c_complete"
    /\ last.res = "NotFound"
    /\ last.sender = "alice"
    /\ paid[last.id] = 1

\* C3: the scenario Create of "foobar" with one coin of Unit and zero thresholds,
\* Accept by another caller, Creator-complete by the creator ends with a successful
\* Creator-complete that returns exactly one native transfer of Unit to the
\* fulfiller who accepted, and "foobar" is in no later listing.
C3_EndToEnd ==
    scenario = 3
    => /\ last.res = "Ok"
       /\ Len(last.msgs) = 1
       /\ last.msgs[1].kind = "bank"
       /\ last.msgs[1].coins = <<[denom |-> "tokens", amount |-> Unit]>>
       /\ last.msgs[1].to # last.sender
       /\ \A i \in 1..Len(query_list(store).escrows) : query_list(store).escrows[i] # "foobar"

\* the deposit as a ledger: the coins as attached, or the one token
AsLedger(balance) ==
    IF balance.kind = "native"
    THEN [native |-> balance.coins, cw20 |-> <<>>]
    ELSE [native |-> <<>>, cw20 |-> <<balance.token[1]>>]

\* a deposit with no amount in it
EmptyDeposit(balance) ==
    IF balance.kind = "native"
    THEN \A i \in 1..Len(balance.coins) : balance.coins[i].amount = 0
    ELSE balance.token[1].amount = 0

\* the request names no address that validation rejects
ValidAddresses(msg) ==
    /\ msg.arbiter # InvalidAddr
    /\ msg.cw20_whitelist # None
        => \A i \in 1..Len(msg.cw20_whitelist[1]) : msg.cw20_whitelist[1][i] # InvalidAddr

\* what C4 promises of the last call
CreateStoredDeposit ==
    /\ last.res = "Ok"
    /\ last.msgs = <<>>
    /\ last.id \in DOMAIN store
    /\ query_details(store, last.id).res = "Ok"
    /\ store[last.id].is_listed
    /\ store[last.id].balance = AsLedger(last.arg[2])

\* C4 as claimed: every Create with a non-empty deposit and an unused id succeeds,
\* the record is retrievable and listed, its ledger is the deposit, no transfer.
C4_Original ==
    (last.op = "c_create" /\ ~EmptyDeposit(last.arg[2]) /\ last.id \notin DOMAIN pre)
    => CreateStoredDeposit

\* C4, amended: the same for every such Create whose arbiter and whitelist entries
\* are valid addresses.
C4_CreateStoresDeposit ==
    (/\ last.op = "c_create" /\ ~EmptyDeposit(last.arg[2]) /\ last.id \notin DOMAIN pre
     /\ ValidAddresses(last.arg[1]))
    => CreateStoredDeposit

\* C4 happens: a Create stored a deposit of two coins, one of them of amount zero
C4_Witness ==
    /\ last.op = "c_create"
    /\ last.res = "Ok"
    /\ last.arg[2].kind = "native"
    /\ Len(last.arg[2].coins) = 2
    /\ last.arg[2].coins[1].amount = 0
    /\ Len(store[last.id].balance.native) = 2

\* C5 as claimed: Create on an id that has a record fails with AlreadyInUse whatever
\* the request holds, and the map is as before.
C5_Original ==
    (last.op = "c_create" /\ last.id \in DOMAIN pre)
    => last.res = "AlreadyInUse" /\ store = pre

\* C5, amended: Create on an id that has a record fails and leaves the map as it
\* was; the error is AlreadyInUse when the deposit is non-empty and the addresses
\* are valid.
C5_DuplicateIdRejected ==
    (last.op = "c_create" /\ last.id \in DOMAIN pre)
    => /\ last.res # "Ok"
       /\ store = pre
       /\ (~EmptyDeposit(last.arg[2]) /\ ValidAddresses(last.arg[1]))
            => last.res = "AlreadyInUse"

\* C5 happens: a token deposit by another caller on the id of a record of coins
C5_Witness ==
    /\ last.op = "c_create"
    /\ last.id \in DOMAIN pre
    /\ last.res = "AlreadyInUse"
    /\ last.arg[2].kind = "cw20"
    /\ pre[last.id].balance.cw20 = <<>>
    /\ last.sender # pre[last.id].creator

\* C6: Create with an empty deposit fails with EmptyBalance and leaves the map as
\* it was, on every id, used or not, and with every message.
C6_EmptyDepositRejected ==
    (last.op = "c_create" /\ EmptyDeposit(last.arg[2]))
    => last.res = "EmptyBalance" /\ store = pre /\ last.msgs = <<>>

\* C6 happens: an empty deposit on an id that has a record
C6_Witness ==
    /\ last.op = "c_create"
    /\ last.arg[2].kind = "native"
    /\ last.arg[2].coins = <<>>
    /\ last.id \in DOMAIN pre
    /\ last.res = "EmptyBalance"

\* C7: Accept by the creator of an existing record fails with Unauthorized, in
\* every lifecycle state of the record.
C7_CreatorCannotAccept ==
    (CalledOnRecord("f_accept") /\ last.sender = pre[last.id].creator)
    => last.res = "Unauthorized" /\ store = pre /\ last.msgs = <<>>

\* C7 happens: the creator's Accept on a record that is not listed
C7_Witness ==
    /\ CalledOnRecord("f_accept")
    /\ last.sender = pre[last.id].creator
    /\ ~pre[last.id].is_listed
    /\ pre[last.id].is_accepted
    /\ last.res = "Unauthorized"

\* the six comparisons of the trust gate: the candidate is no worse than required
ComparisonsPass(required, candidate) ==
    /\ candidate.percent_completed >= required.percent_completed
    /\ candidate.percent_satisfied >= required.percent_satisfied
    /\ candidate.avg_volume >= required.avg_volume
    /\ candidate.avg_completion_speed <= required.avg_completion_speed
    /\ candidate.total_volume >= required.total_volume
    /\ candidate.total_completed >= required.total_completed

\* C8: Accept by a non-creator on a listed record fails with
\* TrustMetricsInsufficient exactly when one of the six comparisons fails, and
\* succeeds when all six pass.
C8_TrustGateDecides ==
    (CalledOnRecord("f_accept") /\ last.sender # pre[last.id].creator /\ pre[last.id].is_listed)
    => LET pass == ComparisonsPass(pre[last.id].required_trust_metrics,
                                   get_trust_metrics(last.sender))
       IN  /\ (last.res = "TrustMetricsInsufficient") <=> ~pass
           /\ pass => (last.res = "Ok")

\* C9: an admitted candidate stays admitted when one of its fields is raised, or
\* its latency lowered.
C9_AdmissionMonotonic ==
    (gate.applied /\ gate.admitted) => gate.bettered_admitted

\* C10: after a successful Accept the stored record's fulfiller is the caller, as
\* GetDetails shows it, and Accept returns no transfer.
C10_AcceptSetsFulfiller ==
    (CalledOnRecord("f_accept") /\ last.res = "Ok")
    => /\ store[last.id].fulfiller = last.sender
       /\ query_details(store, last.id).fulfiller = last.sender
       /\ last.msgs = <<>>

\* what C11 and C12 promise of a refused call: the record stays, no transfer
RefusedWith(e) ==
    /\ last.res = e
    /\ last.msgs = <<>>
    /\ last.id \in DOMAIN store
    /\ store[last.id] = pre[last.id]

C12_OnlyCreatorCompletes ==
    (CalledOnRecord("c_complete") /\ last.sender # pre[last.id].creator)
    => RefusedWith("Unauthorized") /\ store = pre

\* C12 happens: the fulfiller of a fulfilled record that is not completed called
\* Creator-complete
C12_Witness ==
    /\ CalledOnRecord("c_complete")
    /\ last.sender = pre[last.id].fulfiller
    /\ last.sender # pre[last.id].creator
    /\ pre[last.id].is_fulfilled
    /\ ~pre[last.id].is_completed
    /\ last.res = "Unauthorized"

\* C13: a call of any operation that returns an error leaves the map, its ids and
\* every record, as it was before the call.
C13_ErrorLeavesStore ==
    last.res # "Ok" => store = pre

\* C13 happens: a Cancel that passed its caller check was refused on a record that
\* is not accepted, with another record in the map
C13_Witness ==
    /\ CalledOnRecord("c_cancel")
    /\ last.res = "CantUnaccept"
    /\ Cardinality(DOMAIN pre) = 2

FlagsConsistent(escrow) ==
    /\ ~escrow.is_canceled
    /\ ~escrow.is_completed
    /\ escrow.is_fulfilled => escrow.is_accepted
    /\ (escrow.is_in_arbitration \/ escrow.is_completed) => escrow.is_fulfilled

\* C15: in every reachable state every stored record has neither is_canceled nor
\* is_completed set, is_fulfilled only with is_accepted, and is_in_arbitration or
\* is_completed only with is_fulfilled.
C15_FlagInvariant ==
    \A k \in DOMAIN store : FlagsConsistent(store[k])

\* C15 happens: two records are stored and the last call was a successful Accept,
\* Unaccept or Fulfiller-complete on one of them
C15_Witness ==
    /\ Cardinality(DOMAIN store) = 2
    /\ last.op \in {"f_accept", "f_unaccept", "f_complete"}
    /\ last.id \in DOMAIN store
    /\ last.res = "Ok"

FeedbackResult(party) ==
    IF last.sender # party THEN "Unauthorized"
    ELSE IF ~pre[last.id].is_completed THEN "NotComplete"
    ELSE "Ok"

\* C20: Creator-feedback (Fulfiller-feedback) on an existing record succeeds exactly
\* when the caller is the record's creator (fulfiller) and the record is completed,
\* fails with Unauthorized for any other caller and with NotComplete for that
\* caller on a record that is not completed; the map stays as it was and no
\* transfer is returned.
C20_FeedbackGuards ==
    /\ CalledOnRecord("c_feedback")
        => /\ last.res = FeedbackResult(pre[last.id].creator)
           /\ store = pre
           /\ last.msgs = <<>>
    /\ CalledOnRecord("f_feedback")
        => /\ last.res = FeedbackResult(pre[last.id].fulfiller)
           /\ store = pre
           /\ last.msgs = <<>>

\* C20 happens: the creator's feedback on a completed record was accepted where the
\* fulfiller is another caller
C20_Witness ==
    /\ CalledOnRecord("c_feedback")
    /\ last.res = "Ok"
    /\ pre[last.id].is_completed
    /\ pre[last.id].fulfiller # last.sender

\* C21: Arbitrate and Change-terms return Unauthorized for every caller, every id,
\* stored or not, and every state; the map stays as it was, no transfer is returned.
C21_AlwaysDenied ==
    last.op \in {"el_arbitrate", "c_change"}
    => last.res = "Unauthorized" /\ store = pre /\ last.msgs = <<>>

\* C21 happens: the arbiter of a stored record called Arbitrate on it
C21_Witness ==
    /\ CalledOnRecord("el_arbitrate")
    /\ last.sender = pre[last.id].arbiter
    /\ last.res = "Unauthorized"

\* the number of places of list that hold x
Count(list, x) == Cardinality({i \in 1..Len(list) : list[i] = x})

\* C22: ListEscrows returns every live id once and no other id, in ascending byte
\* order of the keys, whatever the order of creation; the empty list on an empty map.
C22_ListSortedComplete ==
    LET l == query_list(store).escrows
    IN  /\ \A k \in DOMAIN store : Count(l, k) = 1
        /\ \A i \in 1..Len(l) : l[i] \in DOMAIN store
        /\ \A i \in 1..Len(l) : \A j \in 1..Len(l) :
                i < j => BytesLess(KeyBytes(l[i]), KeyBytes(l[j]))
        /\ store = << >> => l = <<>>
        /\ DOMAIN store = {"foobar", "assign"} => l = <<"assign", "foobar">>

\* C22 happens: "assign" was created after "foobar" and is listed ahead of it
C22_Witness ==
    /\ last.op = "c_create"
    /\ last.id = "assign"
    /\ last.res = "Ok"
    /\ "foobar" \in DOMAIN pre
    /\ query_list(store).escrows[1] = "assign"

\* the keys of a list of entries
KeysOf(list, f) == [i \in 1..Len(list) |-> list[i][f]]

\* C23: after any sequence of adds the ledger holds, for each denomination and each
\* token, the sum of all amounts deposited under it (whatever the split and the
\* order of the deposits), one entry per key, the entries in the order in which
\* their keys were first deposited.
C23_LedgerSums ==
    /\ \A d \in LedgerDenoms : DenomTotal(ledger.balance.native, d) = ledger.total[d]
    /\ \A t \in LedgerTokens : TokenTotal(ledger.balance.cw20, t) = ledger.total[t]
    /\ KeysOf(ledger.balance.native, "denom") = ledger.first_native
    /\ KeysOf(ledger.balance.cw20, "address") = ledger.first_cw20

\* C23 happens: three adds left two units under the denomination deposited first,
\* a second denomination and a token
C23_Witness ==
    /\ ledger.adds = 3
    /\ Len(ledger.balance.native) = 2
    /\ ledger.balance.native[1] = [denom |-> "eth", amount |-> 2 * Unit]
    /\ Len(ledger.balance.cw20) = 1

\* C24: send_tokens yields one native transfer when the ledger has native entries
\* and none when it has none, carrying every non-zero native entry in the ledger's
\* order, followed by one token transfer per token entry in the ledger's order,
\* every instruction addressed to the destination.
C24_RenderedTransfers ==
    ledger.rendered
    => LET b == ledger.balance
           m == ledger.msgs
           n == IF b.native = <<>> THEN 0 ELSE 1
           nonzero(c) == c.amount # 0
       IN  /\ Len(m) = n + Len(b.cw20)
           /\ Cardinality({i \in 1..Len(m) : m[i].kind = "bank"}) = n
           /\ n = 1 => /\ m[1].kind = "bank"
                       /\ SelectSeq(m[1].coins, nonzero) = SelectSeq(b.native, nonzero)
           /\ \A i \in 1..Len(b.cw20) :
                /\ m[n + i].kind = "wasm"
                /\ m[n + i].contract_addr = b.cw20[i].address
                /\ m[n + i].amount = b.cw20[i].amount
           /\ \A i \in 1..Len(m) : m[i].to = ledger.to

\* C24 happens: a ledger of two denominations and two tokens, the second token
\* deposited first, was rendered for a destination
C24_Witness ==
    /\ ledger.rendered
    /\ ledger.to = "bob"
    /\ Len(ledger.balance.native) = 2
    /\ KeysOf(ledger.balance.cw20, "address") = <<"tok2", "tok">>
    /\ Len(ledger.msgs) = 3

\* C25: every stored record funded with a token has that token in its whitelist,
\* once, whether the request listed it or not; a Create funded with a token stores
\* the request's whitelist as it is when it lists the token, and with the token
\* appended when it does not.
C25_TokenWhitelisted ==
    /\ \A k \in DOMAIN store : \A i \in 1..Len(store[k].balance.cw20) :
            Count(store[k].cw20_whitelist, store[k].balance.cw20[i].address) = 1
    /\ (last.op = "c_create" /\ last.res = "Ok" /\ last.arg[2].kind = "cw20")
        => LET asked == IF last.arg[1].cw20_whitelist = None THEN <<>>
                        ELSE last.arg[1].cw20_whitelist[1]
               token == last.arg[2].token[1].address
           IN  store[last.id].cw20_whitelist =
                    IF Count(asked, token) > 0 THEN asked ELSE Append(asked, token)

\* C25 happens: a record funded with a token its request listed is still stored,
\* with the token listed once, after a successful Accept on it
C25_Witness ==
    /\ CalledOnRecord("f_accept")
    /\ last.res = "Ok"
    /\ last.id \in DOMAIN store
    /\ store[last.id].balance.cw20 # <<>>
    /\ store[last.id].cw20_whitelist = <<"tok">>

\* C26: a successful Create stores the caller as creator and the requested arbiter
\* as arbiter, and no call changes the creator or the arbiter of a record that is
\* stored before and after it.
C26_CreatorArbiterFixed ==
    /\ \A k \in DOMAIN pre \cap DOMAIN store :
            store[k].creator = pre[k].creator /\ store[k].arbiter = pre[k].arbiter
    /\ (last.op = "c_create" /\ last.res = "Ok")
        => /\ store[last.id].creator = last.sender
           /\ store[last.id].arbiter = last.arg[1].arbiter

\* C26 happens: after a successful Unaccept by a fulfiller who is not the creator
\* the record is stored with the creator and the arbiter it had
C26_Witness ==
    /\ CalledOnRecord("f_unaccept")
    /\ last.res = "Ok"
    /\ last.sender # pre[last.id].creator
    /\ last.id \in DOMAIN store
    /\ store[last.id].creator = "alice"
    /\ store[last.id].arbiter = "arb"

\* C27: in every reachable state the ledger of every stored record has at most one
\* entry per denomination and at most one entry per token, also when the deposit of
\* its Create listed a denomination more than once.
C27_LedgerKeysUnique ==
    \A k \in DOMAIN store :
        /\ \A i \in 1..Len(store[k].balance.native) :
                Count(KeysOf(store[k].balance.native, "denom"),
                      store[k].balance.native[i].denom) = 1
        /\ \A i \in 1..Len(store[k].balance.cw20) :
                Count(KeysOf(store[k].balance.cw20, "address"),
                      store[k].balance.cw20[i].address) = 1

\* the operations that load the record of their id
LoadingOps ==
    {"f_accept", "c_cancel", "f_unaccept", "f_complete", "c_request_arbitration",
     "c_complete", "c_feedback", "f_feedback"}

\* C28: every operation that loads a record fails with NotFound on an id that has
\* none, never created or removed, for every caller; the map stays as it was; so
\* does GetDetails; a Creator-complete after a successful one is among them.
C28_MissingIdNotFound ==
    /\ (last.op \in LoadingOps /\ last.id \notin DOMAIN pre)
        => last.res = "NotFound" /\ store = pre /\ last.msgs = <<>>
    /\ \A id \in Ids \ DOMAIN store : query_details(store, id).res = "NotFound"
    /\ \A id \in DOMAIN store : query_details(store, id).res = "Ok"

\* C28 happens: a Creator-complete on the id of a record that was paid out and
\* removed found no record, and neither does GetDetails
C28_Witness ==
    /\ last.op = "c_complete"
    /\ paid[last.id] = 1
    /\ pre = << >>
    /\ last.res = "NotFound"
    /\ query_details(store, last.id).res = "NotFound"

Marked(s, h, t) == [k \in DOMAIN s |-> [s[k] EXCEPT !.end_height = h, !.end_time = t]]

\* a result with the expiry markers left out of its map
Unmarked(out) == [res |-> out.res, msgs |-> out.msgs, store |-> Marked(out.store, None, None)]

\* the results the last call can give, markers left out, when the block is env and
\* the expiry markers of the records and of the request are h and t
ResultsAt(env, h, t) ==
    LET arg == IF last.op = "c_create"
               THEN <<[last.arg[1] EXCEPT !.end_height = h, !.end_time = t], last.arg[2]>>
               ELSE last.arg
    IN  {Unmarked(out) :
            out \in execute(Marked(pre, h, t), env, last.op, last.id, last.sender, arg)}

====
